---- MODULE Spec2Model ----
(***************************************************************************)
(* A model of ctapipe/reco/impact.py (ImPACTReconstructor).                *)
(*                                                                         *)
(* Three specifications share the module:                                  *)
(*   SpecMinimise    the staged fit of ImPACTReconstructor.minimise;       *)
(*   SpecPredict     the per-event flow of ImPACTReconstructor.predict;    *)
(*   SpecLikelihood  set_event_properties, get_shower_max, get_likelihood. *)
(*                                                                         *)
(* Units.  Energies are integers in units of 0.001 TeV.  Amplitudes are    *)
(* integers in units of 5e-9, so that the floor 1e-8 of get_likelihood is  *)
(* 2 and a scale factor of 0.5 can take a floored value below the floor.   *)
(* Scale factors and cosines are integers in units of 1/2.                 *)
(***************************************************************************)
EXTENDS Integers, Sequences, FiniteSets, TLC

VARIABLES
    \* ---- ImPACTReconstructor.minimise ----
    min_pc,          \* position in minimise: "idle", "scan", "stage2", "done"
    params,          \* the seed parameter vector passed to minimise
    limits,          \* the limits array of minimise (one <<lo, hi>> per parameter)
    preminimise,     \* the energy_preminimisation argument
    seed_index,      \* position of the loop over the seed energies (1..5)
    likelihood,      \* the local `likelihood` of the pre-scan
    energy,          \* the local `energy` of minimise
    min,             \* self.min: the Minuit object of the last migrad
    scan_results,    \* history: the result of each stage-1 migrad so far
    fit_return,      \* what minimise returned
    \* ---- the reconstructor object (self) ----
    config,          \* constructor arguments: use_time_gradient, priors, template_scale
    event,           \* the event state set_event_properties leaves in self
    prediction,      \* self.prediction: camera type -> template predictor
    time_prediction, \* self.time_prediction: camera type -> time predictor
    \* ---- get_shower_max / get_likelihood ----
    call,            \* the last call made on the object, with what it passed on
    \* ---- ImPACTReconstructor.predict ----
    predict_pc,      \* position in predict: "idle", "fit", "done", "failed"
    predict_in,      \* the arguments of the predict call
    raised,          \* the exception the predict call ended with, "" for none
    result,          \* the containers predict returned, with the fit they rest on
    evaluations,     \* likelihood evaluations of the current fit so far
    bad_query        \* history: an evaluation queried a predictor that was not
                     \* reset exactly once since the event started

minimise_vars == <<min_pc, params, limits, preminimise, seed_index, likelihood,
                   energy, min, scan_results, fit_return>>

self_vars == <<config, event, prediction, time_prediction>>

predict_vars == <<predict_pc, predict_in, raised, result, evaluations, bad_query>>

vars == <<min_pc, params, limits, preminimise, seed_index, likelihood, energy,
          min, scan_results, fit_return, config, event, prediction,
          time_prediction, call, predict_pc, predict_in, raised, result,
          evaluations, bad_query>>

----------------------------------------------------------------------------
(* Small helpers *)

Max(a, b) == IF a >= b THEN a ELSE b

Range(s) == {s[i] : i \in DOMAIN s}

----------------------------------------------------------------------------
(***************************************************************************)
(* ImPACTReconstructor.minimise                                            *)
(***************************************************************************)

\* Largest objective value below 1e9 that a migrad of the model returns.
MaxFval == 2

\* likelihood = 1e9 (the value the pre-scan compares every fval against)
InitLikelihood == 1000000000

\* for seed_energy in [0.03, 0.1, 1, 10, 100], in units of 0.001 TeV
SeedEnergies == <<30, 100, 1000, 10000, 100000>>

\* self.min.limits of stage 1: energy in [0.01, 500] TeV
PrescanEnergyLimits == <<10, 500000>>

\* Minuit's default tolerance, in units of 0.1
DefaultTol == 1

ParamNames == <<"source_x", "source_y", "core_x", "core_y", "energy", "x_max_scale">>

\* The objective values a migrad can end with: anything, 1e9 and above included.
Fvals == (1..MaxFval) \cup {InitLikelihood}

\* The energies a stage-1 migrad started at seed_energy can end at: the energy
\* is the only free parameter and stays inside its limits.
PrescanFits(seed_energy) ==
    {e \in {seed_energy, 2 * seed_energy} :
        /\ e >= PrescanEnergyLimits[1]
        /\ e <= PrescanEnergyLimits[2]}

\* The seeds minimise is called with: the energy seed is 0 when predict has
\* no energy seed (and then asks for the pre-scan).
SeedParams == {<<0, 0, 0, 0, e, 100>> : e \in {0, 1000}}

\* The energy limits of the seed (the other limits do not depend on the fit).
SeedLimits(p) ==
    <<  <<p[1] - 1, p[1] + 1>>, <<p[2] - 1, p[2] + 1>>,
        <<p[3] - 100, p[3] + 100>>, <<p[4] - 100, p[4] + 100>>,
        <<10, Max(2 * p[5], 20)>>, <<50, 200>>  >>

NoMin == [energy |-> 0, fixed |-> <<>>, tol |-> 0, strategy |-> 0,
          limits |-> <<>>, fval |-> 0, valid |-> FALSE, values |-> <<>>,
          errors |-> <<>>]

NoReturn == [values |-> <<>>, errors |-> <<>>, fval |-> 0]


\* minimise(params, step, limits, energy_preminimisation): entry, lines 816-825
MinimiseCall ==
    /\ min_pc \in {"idle", "done"}
    /\ \E p \in SeedParams, pre \in BOOLEAN :
        /\ params' = p
        /\ limits' = SeedLimits(p)
        /\ preminimise' = pre
        /\ energy' = p[5]
        /\ likelihood' = InitLikelihood
        /\ min_pc' = IF pre THEN "scan" ELSE "stage2"
    /\ seed_index' = 1
    /\ scan_results' = <<>>
    /\ min' = NoMin
    /\ fit_return' = NoReturn
    /\ UNCHANGED <<self_vars, call, predict_vars>>

\* if migrad.fval < likelihood: the pre-scan takes this candidate's result
PrescanAccepts(fval, best) == fval < best

\* The value of `likelihood` after a candidate.  The loop never assigns it.
PrescanLikelihood(fval, best) == best

\* One iteration of the loop over the seed energies, lines 827-853
PrescanStep ==
    /\ min_pc = "scan"
    /\ LET seed_energy == SeedEnergies[seed_index] IN
       \E fval \in Fvals, fit \in PrescanFits(seed_energy), ok \in BOOLEAN :
        /\ min' = [energy |-> fit,
                   fixed |-> <<TRUE, TRUE, TRUE, TRUE, FALSE, TRUE, TRUE>>,
                   tol |-> DefaultTol * 1000,
                   strategy |-> 0,
                   limits |-> PrescanEnergyLimits,
                   fval |-> fval, valid |-> ok,
                   values |-> [params EXCEPT ![5] = fit],
                   errors |-> <<0, 0, 0, 0, seed_energy \div 10, 0>>]
        /\ scan_results' = Append(scan_results, [fval |-> fval, energy |-> fit,
                                                  tol |-> DefaultTol * 1000])
        /\ IF PrescanAccepts(fval, likelihood)
              THEN /\ energy' = fit
                   /\ limits' = [limits EXCEPT ![5] = <<fit \div 10, fit * 2>>]
              ELSE UNCHANGED <<energy, limits>>
        /\ likelihood' = PrescanLikelihood(fval, likelihood)
    /\ IF seed_index = Len(SeedEnergies)
          THEN /\ min_pc' = "stage2"
               /\ seed_index' = seed_index
          ELSE /\ min_pc' = "scan"
               /\ seed_index' = seed_index + 1
    /\ UNCHANGED <<params, preminimise, fit_return, self_vars, call, predict_vars>>

\* The errors Minuit reports after stage 2, one per parameter.
Stage2Errors == { <<1, 2, 3, 4, 5, 6>>, <<2, 2, 7, 9, 1, 1>> }

\* The tuple of errors minimise returns, lines 884-888
ReturnedErrors(errors) ==
    <<errors[1], errors[2], errors[3], errors[3], errors[5], errors[6]>>

\* "Now do the minimisation proper", lines 856-890
Stage2 ==
    /\ min_pc = "stage2"
    /\ \E fval \in Fvals, ok \in BOOLEAN, errors \in Stage2Errors,
          moved \in BOOLEAN :
        LET start == <<params[1], params[2], params[3], params[4], energy, 100>>
            values == IF moved
                         THEN [i \in 1..6 |-> IF start[i] < limits[i][2]
                                                 THEN start[i] + 1 ELSE start[i]]
                         ELSE start
        IN  /\ min' = [energy |-> energy,
                       fixed |-> <<FALSE, FALSE, FALSE, FALSE, FALSE, FALSE, TRUE>>,
                       tol |-> DefaultTol * 1000,
                       strategy |-> 1,
                       limits |-> limits[5],
                       fval |-> fval, valid |-> ok,
                       values |-> values, errors |-> errors]
            /\ fit_return' = [values |-> values,
                              errors |-> ReturnedErrors(errors),
                              fval |-> fval]
    /\ min_pc' = "done"
    /\ scan_results' = <<>>
    /\ UNCHANGED <<params, limits, preminimise, seed_index, likelihood, energy,
                   self_vars, call, predict_vars>>

NextMinimise == MinimiseCall \/ PrescanStep \/ Stage2

----------------------------------------------------------------------------
(***************************************************************************)
(* Floating-point values: a finite number, NaN, +infinity or -infinity.    *)
(***************************************************************************)

Fin(n) == [k |-> "fin", v |-> n]
NaN == [k |-> "nan", v |-> 0]
PInf == [k |-> "inf", v |-> 1]
NInf == [k |-> "inf", v |-> -1]

IsFinite(a) == a.k = "fin"
IsNaN(a) == a.k = "nan"

Sign(n) == IF n > 0 THEN 1 ELSE IF n < 0 THEN -1 ELSE 0

\* a < b and a > b of IEEE floats: false whenever an operand is NaN
XLt(a, b) ==
    /\ ~IsNaN(a) /\ ~IsNaN(b)
    /\ IF IsFinite(a) /\ IsFinite(b) THEN a.v < b.v
       ELSE IF IsFinite(a) THEN b.v = 1
       ELSE IF IsFinite(b) THEN a.v = -1
       ELSE a.v < b.v

XGt(a, b) == XLt(b, a)

XNeg(a) == IF IsFinite(a) THEN Fin(-a.v) ELSE IF IsNaN(a) THEN NaN
           ELSE [k |-> "inf", v |-> -a.v]

XAdd(a, b) ==
    IF IsNaN(a) \/ IsNaN(b) THEN NaN
    ELSE IF IsFinite(a) /\ IsFinite(b) THEN Fin(a.v + b.v)
    ELSE IF IsFinite(a) THEN b
    ELSE IF IsFinite(b) THEN a
    ELSE IF a.v = b.v THEN a ELSE NaN

XSub(a, b) == XAdd(a, XNeg(b))

\* a * n / d for finite integers n and d, d # 0 (a scaling by the rational n/d)
XScale(a, n, d) ==
    LET nn == IF d < 0 THEN -n ELSE n
        dd == IF d < 0 THEN -d ELSE d
    IN  IF IsNaN(a) THEN NaN
        ELSE IF IsFinite(a) THEN Fin((a.v * nn) \div dd)
        ELSE IF nn = 0 THEN NaN
        ELSE [k |-> "inf", v |-> a.v * Sign(nn)]

\* n / d of two finite non-negative numbers, scaled by `unit`: x/0 is +inf, 0/0 is NaN
XDiv(n, d, unit) ==
    IF d # 0 THEN Fin((n * unit) \div d)
    ELSE IF n = 0 THEN NaN ELSE PInf

RECURSIVE XSum(_)
XSum(s) == IF s = <<>> THEN Fin(0) ELSE XAdd(Head(s), XSum(Tail(s)))

RECURSIVE Sum(_)
Sum(s) == IF s = <<>> THEN 0 ELSE Head(s) + Sum(Tail(s))

\* floor(sqrt(n)) of a non-negative integer
ISqrt(n) == CHOOSE r \in 0..n : r * r <= n /\ (r + 1) * (r + 1) > n

----------------------------------------------------------------------------
(***************************************************************************)
(* The subarray and the inputs of an event                                 *)
(***************************************************************************)

\* Telescopes of the subarray and pixels of a camera
NTel == 3
NPix == 2

Tels == 1..NTel
Pixels == 1..NPix

CameraNames == <<"LSTCam", "NectarCam", "DUMMY">>

\* subarray.tel[tel_id].camera.camera_name
camera_name(tel_id) == CameraNames[((tel_id - 1) % Len(CameraNames)) + 1]

\* ped_table, in units of 0.1
ped_table == [c \in {"LSTCam", "NectarCam", "FlashCam", "CHEC", "ASTRICam",
                     "DUMMY", "UNKNOWN-960PX"} |->
                CASE c = "LSTCam" -> 28
                  [] c = "NectarCam" -> 23
                  [] c = "FlashCam" -> 23
                  [] c = "CHEC" -> 5
                  [] c = "ASTRICam" -> 5
                  [] c = "DUMMY" -> 0
                  [] OTHER -> 10]

\* spe = 0.5, in units of 0.1
spe_width == 5

\* Pixel coordinates of a camera pixel in the nominal frame (the camera
\* geometry after the frame transform)
nominal_x(tel_id, p) == 10 * tel_id + p
nominal_y(tel_id, p) == 20 * tel_id - p

\* Telescope positions in the tilted frame, in units of 100 m
tilt_x(tel_id) == tel_id
tilt_y(tel_id) == 0

\* Hillas centroids, in units of 0.01 rad, and intensities
hillas_fov_lon(tel_id) == IF tel_id % 3 = 1 THEN 3 ELSE 0
hillas_fov_lat(tel_id) == IF tel_id % 3 = 1 THEN 4 ELSE IF tel_id % 3 = 0 THEN 1 ELSE 0
hillas_intensity(tel_id) == 50 * tel_id

\* A dict argument: None, or a mapping defined on `keys`
NoneDict == [none |-> TRUE, keys |-> {}, val |-> <<>>]
Dict(keys, val) == [none |-> FALSE, keys |-> keys, val |-> val]

\* The hillas_dict of an event: the participating telescopes in dict order
RECURSIVE Ascending(_)
Ascending(S) == IF S = {} THEN <<>>
                ELSE LET m == CHOOSE x \in S : \A y \in S : x <= y
                     IN <<m>> \o Ascending(S \ {m})

HillasDicts == {Ascending(S) : S \in (SUBSET Tels) \ {{}}}

\* Observed images: the amplitude of pixel p of a telescope
ImageOf(b) == [t \in Tels |-> [p \in Pixels |-> (t + p + b) % 3]]

\* Cleaning masks of one telescope: no pixel, every pixel, the first pixel
MaskChoices == { [p \in Pixels |-> FALSE], [p \in Pixels |-> TRUE],
                 [p \in Pixels |-> p = 1] }

----------------------------------------------------------------------------
(***************************************************************************)
(* ImPACTReconstructor.set_event_properties                                *)
(***************************************************************************)

NoArray == [data |-> <<>>, mask |-> <<>>]

NoEvent == [assembled |-> FALSE, image_is_dict |-> FALSE,
            tel_types |-> <<>>, tel_id |-> <<>>,
            pixel_x |-> NoArray, pixel_y |-> NoArray,
            image |-> NoArray, time |-> NoArray,
            ped |-> <<>>, spe |-> <<>>, scale_factor |-> <<>>,
            tel_pos_x |-> <<>>, tel_pos_y |-> <<>>,
            peak_x |-> <<>>, peak_y |-> <<>>, peak_amp |-> <<>>,
            alt |-> 90]

\* The pixels a mask selects, in pixel order: geometry.pix_x[mask]
Selected(mask) == SelectSeq([p \in Pixels |-> p], LAMBDA p : mask[p])

\* The error the loop body raises for a telescope, "" when it raises none
\* (lines 624, 638, 639, 641)
TelError(tel, image_dict, time_dict, mask_dict) ==
    IF mask_dict.none THEN "TypeError"
    ELSE IF tel \notin mask_dict.keys THEN "KeyError"
    ELSE IF image_dict.none THEN "TypeError"
    ELSE IF tel \notin image_dict.keys THEN "KeyError"
    ELSE IF time_dict.none THEN "TypeError"
    ELSE IF tel \notin time_dict.keys THEN "KeyError"
    ELSE IF camera_name(tel) \notin DOMAIN ped_table THEN "KeyError"
    ELSE ""

\* A row of a padded array: the first entries, then zeros up to n
PadRow(row, n) == [j \in 1..n |-> IF j <= Len(row) THEN row[j] ELSE 0]

\* mask = self.image == 0.0, line 676
ImageMask(image_data) ==
    [i \in DOMAIN image_data |-> [j \in DOMAIN image_data[i] |-> image_data[i][j] = 0]]

\* An array that masks nothing
Unmasked(data, mask) ==
    [data |-> data, mask |-> [i \in DOMAIN data |-> [j \in DOMAIN data[i] |-> FALSE]]]

\* array[mask] = ma.masked on an array without masked entries, lines 677-679
Masked(data, mask) == [data |-> data, mask |-> mask]

\* Lines 589-679: the event state, or the state left behind by the error
set_event_properties(old, hillas_dict, image_dict, time_dict, mask_dict, alt, template_scale) ==
    LET n == Len(hillas_dict)
        bad == {i \in 1..n :
                  TelError(hillas_dict[i], image_dict, time_dict, mask_dict) # ""}
        first_bad == IF bad = {} THEN n + 1
                     ELSE CHOOSE i \in bad : \A j \in bad : i <= j
        done == first_bad - 1
        sel(i) == Selected(mask_dict.val[hillas_dict[i]])
        px(i) == [k \in 1..Len(sel(i)) |-> nominal_x(hillas_dict[i], sel(i)[k])]
        py(i) == [k \in 1..Len(sel(i)) |-> nominal_y(hillas_dict[i], sel(i)[k])]
        pa(i) == [k \in 1..Len(sel(i)) |-> image_dict.val[hillas_dict[i]][sel(i)[k]]]
        pt(i) == [k \in 1..Len(sel(i)) |-> time_dict.val[hillas_dict[i]][sel(i)[k]]]
        RECURSIVE MaxLen(_)
        MaxLen(i) == IF i = 0 THEN 0 ELSE Max(Len(px(i)), MaxLen(i - 1))
        max_pix_x == MaxLen(n)
        types == [i \in 1..n |-> camera_name(hillas_dict[i])]
        image_data == [i \in 1..n |-> PadRow(pa(i), max_pix_x)]
        mask == ImageMask(image_data)
    IN
    IF first_bad <= n
    THEN [error |-> TelError(hillas_dict[first_bad], image_dict, time_dict, mask_dict),
          type_tel |-> {},
          event |-> [old EXCEPT
                !.assembled = FALSE,
                !.image_is_dict = TRUE,
                !.tel_pos_x = [i \in 1..n |-> IF i <= done THEN tilt_x(hillas_dict[i]) ELSE 0],
                !.tel_pos_y = [i \in 1..n |-> IF i <= done THEN tilt_y(hillas_dict[i]) ELSE 0],
                !.scale_factor = [i \in 1..n |-> IF i <= done
                                        THEN template_scale[hillas_dict[i]] ELSE 0],
                !.ped = [i \in 1..n |-> IF i <= done THEN ped_table[types[i]] ELSE 0],
                !.tel_types = SubSeq(types, 1, done),
                !.tel_id = SubSeq(hillas_dict, 1, done),
                !.alt = alt]]
    ELSE [error |-> "",
          type_tel |-> Range(types),
          event |-> [assembled |-> TRUE, image_is_dict |-> FALSE,
                tel_types |-> types, tel_id |-> hillas_dict,
                pixel_x |-> Masked([i \in 1..n |-> PadRow(px(i), max_pix_x)], mask),
                pixel_y |-> Masked([i \in 1..n |-> PadRow(py(i), max_pix_x)], mask),
                image |-> Masked(image_data, mask),
                time |-> Masked([i \in 1..n |-> PadRow(pt(i), max_pix_x)], mask),
                ped |-> [i \in 1..n |-> PadRow([k \in 1..Len(sel(i)) |->
                                                 ped_table[types[i]]], max_pix_x)],
                spe |-> [i \in 1..n |-> PadRow([k \in 1..Len(sel(i)) |-> spe_width],
                                               max_pix_x)],
                scale_factor |-> [i \in 1..n |-> template_scale[hillas_dict[i]]],
                tel_pos_x |-> [i \in 1..n |-> tilt_x(hillas_dict[i])],
                tel_pos_y |-> [i \in 1..n |-> tilt_y(hillas_dict[i])],
                peak_x |-> [i \in 1..n |-> hillas_fov_lon(hillas_dict[i])],
                peak_y |-> [i \in 1..n |-> hillas_fov_lat(hillas_dict[i])],
                peak_amp |-> [i \in 1..n |-> hillas_intensity(hillas_dict[i])],
                alt |-> alt]]

----------------------------------------------------------------------------
(***************************************************************************)
(* The predictor caches: initialise_templates and reset_interpolator       *)
(***************************************************************************)

CameraTypes == Range(CameraNames)

\* A cache slot: whether the camera type has a predictor, the event its
\* lookup state comes from ("clean" after reset() or creation, "event" once
\* queried for the current event, "old" when left from an earlier event), and
\* how often reset() was called on it in the current predict call.
NoPredictor == [cached |-> FALSE, lookup |-> "clean", resets |-> 0]

EmptyCache == [c \in CameraTypes |-> NoPredictor]

\* if tel_type[t] in self.prediction.keys() or tel_type[t] == "DUMMY": continue
TemplateSkipped(cache, type) == cache[type].cached \/ type = "DUMMY"

\* initialise_templates, lines 221-231: the amplitude predictors
initialise_templates(cache, type_tel) ==
    [c \in CameraTypes |->
        IF c \in type_tel /\ ~TemplateSkipped(cache, c)
           THEN [cached |-> TRUE, lookup |-> "clean", resets |-> 0]
           ELSE cache[c]]

\* initialise_templates, lines 233-239: the time predictors, created with the
\* amplitude predictor of a new type when use_time_gradient is set
initialise_time_templates(tcache, cache, type_tel, use_time_gradient) ==
    [c \in CameraTypes |->
        IF c \in type_tel /\ ~TemplateSkipped(cache, c) /\ use_time_gradient
           THEN [cached |-> TRUE, lookup |-> "clean", resets |-> 0]
           ELSE tcache[c]]

\* The predictors reset_interpolator calls reset() on: for key in self.prediction
ResetKeys(cache) == {c \in CameraTypes : cache[c].cached}

\* reset_interpolator, lines 898-899
reset_interpolator(cache) ==
    [c \in CameraTypes |->
        IF c \in ResetKeys(cache)
           THEN [cache[c] EXCEPT !.lookup = "clean", !.resets = @ + 1]
           ELSE cache[c]]

----------------------------------------------------------------------------
(***************************************************************************)
(* ImPACTReconstructor.get_shower_max                                      *)
(***************************************************************************)

\* mean_height += 1835
SiteAltitude == 1835

\* if mean_height > 100000 ...: mean_height = 100000
MaxHeight == 100000

\* 2 * cos(zenith), the zenith in degrees
Cos2 == [z \in {0, 60, 180} |-> CASE z = 0 -> 2 [] z = 60 -> 1 [] OTHER -> -2]

\* self.thickness_profile: atmospheric depth (g/cm2) at a height (m).  A
\* non-finite height has no entry in the depth table.
thickness_profile(h) ==
    IF ~IsFinite(h) THEN NaN
    ELSE IF h.v >= 100000 THEN Fin(0)
    ELSE IF h.v >= 20000 THEN Fin(60)
    ELSE IF h.v >= 10000 THEN Fin(300)
    ELSE IF h.v >= 5000 THEN Fin(500)
    ELSE Fin(700)

\* Lines 328-329: the height looked up in the depth tables
ClampHeight(mean_height) ==
    IF XGt(mean_height, Fin(MaxHeight)) \/ IsNaN(mean_height)
       THEN Fin(MaxHeight)
       ELSE mean_height

\* Lines 308-326: the mean height above sea level, before the clamp
MeanHeight(ev, source_x, source_y, core_x, core_y, zen) ==
    LET n == Len(ev.peak_x)
        disp(i) == ISqrt((ev.peak_x[i] - source_x) * (ev.peak_x[i] - source_x)
                         + (ev.peak_y[i] - source_y) * (ev.peak_y[i] - source_y))
        impact(i) == ISqrt((ev.tel_pos_x[i] - core_x) * (ev.tel_pos_x[i] - core_x)
                           + (ev.tel_pos_y[i] - core_y) * (ev.tel_pos_y[i] - core_y))
        \* height = impact / disp in metres: impact in units of 100 m, disp
        \* in units of 0.01 rad
        height(i) == XDiv(impact(i), disp(i), 10000)
        \* weight = np.power(self.peak_amp, 0.0)
        weight(i) == 1
        total == XSum([i \in 1..n |-> XScale(height(i), Cos2[zen] * weight(i), 2)])
        weights == Sum([i \in 1..n |-> weight(i)])
    IN  IF weights = 0 THEN NaN
        ELSE XAdd(XScale(total, 1, weights), Fin(SiteAltitude))

\* get_shower_max: the height looked up and the depth returned
get_shower_max(ev, xmax_offset, source_x, source_y, core_x, core_y, zen) ==
    LET mean_height == ClampHeight(MeanHeight(ev, source_x, source_y,
                                              core_x, core_y, zen))
        x_max == XScale(thickness_profile(mean_height), 2, Cos2[zen])
    IN  [mean_height |-> mean_height, x_max |-> XAdd(x_max, Fin(xmax_offset))]

----------------------------------------------------------------------------
(***************************************************************************)
(* ImPACTReconstructor.get_likelihood                                      *)
(***************************************************************************)

\* prediction[prediction < 1e-8] = 1e-8, in units of 5e-9
Floor == 2

\* if x_max_bin > 150: x_max_bin = 150
XmaxBinHigh == 150

\* if x_max_bin < -100: x_max_bin = -100
XmaxBinLow == -100

\* guess_shower_depth: the expected depth of maximum at an energy
guess_shower_depth(e) ==
    IF e <= 30 THEN 158 ELSE IF e <= 100 THEN 207 ELSE IF e <= 1000 THEN 300
    ELSE IF e <= 10000 THEN 393 ELSE 486

\* A clamp that lacks the lower bound of lines 442-443
ClampXmaxBinHighOnly(x_max_bin) ==
    IF XGt(x_max_bin, Fin(XmaxBinHigh)) THEN Fin(XmaxBinHigh) ELSE x_max_bin

\* Lines 440-443
ClampXmaxBin(x_max_bin) ==
    LET high == IF XGt(x_max_bin, Fin(XmaxBinHigh)) THEN Fin(XmaxBinHigh)
                ELSE x_max_bin
    IN  IF XLt(high, Fin(XmaxBinLow)) THEN Fin(XmaxBinLow) ELSE high

\* np.unique(self.tel_types).tolist(): the types of the event, sorted
SortedTypes == <<"DUMMY", "LSTCam", "NectarCam">>

UniqueTypes(ev) == SelectSeq(SortedTypes, LAMBDA c : c \in Range(ev.tel_types))

\* The lookups of one pass of the loop over the types: self.prediction[tel_type]
\* in image_prediction, then self.time_prediction[tel_type] in predict_time
TypeMisses(cache, tcache, use_time_gradient, c) ==
    \/ ~cache[c].cached
    \/ use_time_gradient /\ ~tcache[c].cached

\* The values a template predictor can put in a pixel, valid or not
RawValues == <<Fin(-3), Fin(0), Fin(5), NaN, PInf, NInf>>

\* The array a predictor returns for choice k: every value occurs in every cell
RawPrediction(k, i, j) == RawValues[((k + i + j) % Len(RawValues)) + 1]

\* The time gradient and its uncertainty a time predictor returns
TimeGradient(c) == IF c = "LSTCam" THEN <<1, 1>> ELSE <<0, 2>>

\* Lines 507-508: the floor of one predicted amplitude
FloorPrediction(v) ==
    LET no_nan == IF IsNaN(v) THEN Fin(Floor) ELSE v
    IN  IF XLt(no_nan, Fin(Floor)) THEN Fin(Floor) ELSE no_nan

\* Lines 507-509: the floor, then prediction *= self.scale_factor[:, np.newaxis]
PreparePrediction(v, scale_factor) == XScale(FloorPrediction(v), scale_factor, 2)

\* neg_log_likelihood_approx, per pixel
neg_log_likelihood_approx(image, pred, spe, ped) ==
    IF ~IsFinite(pred) THEN NaN
    ELSE Fin((image - pred.v) * (image - pred.v) + pred.v + ped + spe)

\* mean_poisson_likelihood_gaussian, per pixel
mean_poisson_likelihood_gaussian(pred, spe, ped) ==
    IF ~IsFinite(pred) THEN NaN ELSE Fin(1 + 2 * pred.v + ped + spe)

\* energy_prior(energy, index=-1) and xmax_prior(energy, x_max)
energy_prior(e) == Fin(1 + e \div 1000)
xmax_prior(e, x_max) == XAdd(x_max, Fin(guess_shower_depth(e)))

\* Lines 520-526: prior_pen
PriorPen(priors, e, x_max) ==
    XAdd(IF "energy" \in priors THEN energy_prior(e) ELSE Fin(0),
         IF "xmax" \in priors THEN xmax_prior(e, x_max) ELSE Fin(0))

\* Lines 528-532: final_sum, the value returned when goodness_of_fit is false
FinalSum(like, prior_pen, use_time_gradient, chi2_sum) ==
    IF use_time_gradient THEN XAdd(like, chi2_sum) ELSE like

\* Line 518: the value returned when goodness_of_fit is true
GoodnessOfFit(like, baseline) == XSub(like, baseline)

\* The cells of the padded arrays: <<telescope row, pixel column>>
Cells(ev) == {<<i, j>> : i \in 1..Len(ev.image.data),
                         j \in 1..(IF Len(ev.image.data) = 0 THEN 0
                                   ELSE Len(ev.image.data[1]))}

RECURSIVE XSumOver(_, _)
XSumOver(f, S) == IF S = {} THEN Fin(0)
                  ELSE LET c == CHOOSE x \in S : TRUE
                       IN XAdd(f[c], XSumOver(f, S \ {c}))

\* Lines 512-516: the cells whose likelihood is summed (like[mask] = 0)
LikeCells(ev) == {c \in Cells(ev) : ~ev.image.mask[c[1]][c[2]]}

\* Lines 488-504: the time-gradient term of one telescope; `singular` is what
\* the division by d = 0 leaves in time_fit
TimeChi2(ev, source_x, i, singular) ==
    LET m == Len(ev.image.data[i])
        x(j) == ev.pixel_x.data[i][j] - source_x
        t(j) == ev.time.data[i][j]
        w(j) == IF ~ev.image.mask[i][j] /\ t(j) > 0
                   THEN ISqrt(ev.image.data[i][j]) ELSE 0
        s == Sum([j \in 1..m |-> w(j)])
        sx == Sum([j \in 1..m |-> x(j) * w(j)])
        sxx == Sum([j \in 1..m |-> x(j) * x(j) * w(j)])
        sy == Sum([j \in 1..m |-> t(j) * w(j)])
        sxy == Sum([j \in 1..m |-> t(j) * x(j) * w(j)])
        d == s * sxx - sx * sx
        time_fit == IF d = 0 THEN singular
                    ELSE XScale(Fin(s * sxy - sx * sy), -1, d)
        tg == TimeGradient(ev.tel_types[i])
        z == XScale(XSub(time_fit, Fin(tg[1])), 1, tg[2])
    IN  IF IsFinite(z) THEN Fin(z.v * z.v + 2) ELSE NaN

\* get_likelihood, lines 426-532.  `k` selects what the template predictors
\* return.  The result records what the call passed on and returned.
get_likelihood(ev, cfg, cache, tcache, a, goodness_of_fit, k, singular) ==
    LET zenith == 90 - ev.alt
        shower == get_shower_max(ev, cfg.xmax_offset, a.source_x, a.source_y,
                                 a.core_x, a.core_y, zenith)
        x_max == XScale(shower.x_max, a.x_max_scale, 100)
        x_max_exp == guess_shower_depth(a.energy)
        unclamped == XSub(x_max, Fin(x_max_exp))
        x_max_bin == ClampXmaxBin(unclamped)
        types == UniqueTypes(ev)
        misses == {n \in 1..Len(types) :
                     TypeMisses(cache, tcache, cfg.use_time_gradient, types[n])}
        first_miss == IF misses = {} THEN Len(types) + 1
                      ELSE CHOOSE n \in misses : \A o \in misses : n <= o
        queried == {types[n] : n \in {o \in 1..Len(types) :
                        o < first_miss \/ (o = first_miss /\ cache[types[o]].cached)}}
        cells == Cells(ev)
        pred == [c \in cells |->
                    PreparePrediction(RawPrediction(k, c[1], c[2]),
                                      ev.scale_factor[c[1]])]
        like == XSumOver([c \in cells |->
                    neg_log_likelihood_approx(ev.image.data[c[1]][c[2]], pred[c],
                                              ev.spe[c[1]][c[2]], ev.ped[c[1]][c[2]])],
                    LikeCells(ev))
        baseline == XSumOver([c \in cells |->
                    mean_poisson_likelihood_gaussian(pred[c], ev.spe[c[1]][c[2]],
                                                     ev.ped[c[1]][c[2]])],
                    LikeCells(ev))
        chi2 == [i \in 1..Len(ev.tel_types) |->
                    TimeChi2(ev, a.source_x, i, singular)]
        chi2_sum == XSum(chi2)
        prior_pen == PriorPen(cfg.priors, a.energy, x_max)
        base == [op |-> "get_likelihood", args |-> a, gof |-> goodness_of_fit,
                 zen |-> zenith,
                 mean_height |-> shower.mean_height,
                 unclamped |-> unclamped, x_max_bin |-> x_max_bin,
                 queried |-> queried,
                 time_queried |-> {q \in queried :
                                     cfg.use_time_gradient /\ tcache[q].cached}]
    IN  IF first_miss <= Len(types)
        THEN base @@ [error |-> "KeyError", passed |-> <<>>, like |-> Fin(0),
                      baseline |-> Fin(0), chi2 |-> <<>>, chi2_sum |-> Fin(0),
                      ret |-> Fin(0)]
        ELSE base @@ [error |-> "", passed |-> pred, like |-> like,
                      baseline |-> baseline,
                      chi2 |-> IF cfg.use_time_gradient THEN chi2 ELSE <<>>,
                      chi2_sum |-> IF cfg.use_time_gradient THEN chi2_sum ELSE Fin(0),
                      ret |-> IF goodness_of_fit
                                 THEN GoodnessOfFit(like, baseline)
                                 ELSE FinalSum(like, prior_pen,
                                               cfg.use_time_gradient, chi2_sum)]

----------------------------------------------------------------------------
(***************************************************************************)
(* SpecLikelihood: a reconstructor whose methods are called one at a time  *)
(***************************************************************************)

\* template_scale, a scale factor per telescope in units of 1/2: 1.0, 0.5,
\* 2.0, 1.0, ... by telescope
TemplateScales == { [t \in Tels |-> <<2, 1, 4>>[((t - 1) % 3) + 1]] }

\* The constructor arguments: use_time_gradient, prior, template_scale and
\* xmax_offset
Configs == [use_time_gradient : BOOLEAN,
            priors : {{}, {"energy", "xmax"}},
            template_scale : TemplateScales,
            xmax_offset : {0}]

\* Array pointings: the altitude in degrees
Altitudes == {90, 30}

\* Candidate parameter vectors: source in units of 0.01 rad, core in units of 100 m,
\* energy in units of 0.001 TeV, x_max_scale in units of 0.01
LikelihoodArgs == [source_x : {0}, source_y : {0, 4},
                   core_x : {0, -10}, core_y : {0},
                   energy : {100, 100000}, x_max_scale : {100}]

NoArgs == [source_x |-> 0, source_y |-> 0, core_x |-> 0, core_y |-> 0,
           energy |-> 0, x_max_scale |-> 0]

NoCall == [op |-> "none", args |-> NoArgs, gof |-> FALSE, zen |-> 0,
           mean_height |-> Fin(0), unclamped |-> Fin(0), x_max_bin |-> Fin(0),
           queried |-> {}, error |-> "", passed |-> <<>>, like |-> Fin(0),
           baseline |-> Fin(0), chi2 |-> <<>>, chi2_sum |-> Fin(0),
           ret |-> Fin(0)]

MinimiseIdle ==
    /\ min_pc = "idle"
    /\ params = <<0, 0, 0, 0, 0, 100>>
    /\ limits = SeedLimits(params)
    /\ preminimise = TRUE
    /\ seed_index = 1
    /\ likelihood = InitLikelihood
    /\ energy = 0
    /\ min = NoMin
    /\ scan_results = <<>>
    /\ fit_return = NoReturn

NoPredictIn == [hillas_dict |-> <<>>, image_dict |-> NoneDict,
                mask_dict |-> NoneDict]

NoResult == [shower_is_valid |-> FALSE, energy_is_valid |-> FALSE,
             migrad_valid |-> FALSE]

PredictIdle ==
    /\ predict_pc = "idle"
    /\ predict_in = NoPredictIn
    /\ raised = ""
    /\ result = NoResult
    /\ evaluations = 0
    /\ bad_query = FALSE

InitLike ==
    /\ MinimiseIdle
    /\ PredictIdle
    /\ config \in Configs
    /\ event = NoEvent
    /\ prediction = EmptyCache
    /\ time_prediction = EmptyCache
    /\ call = NoCall

\* set_event_properties(...) on the new reconstructor, with the images and
\* masks of every participating telescope; the time_dict is the image_dict, as
\* in predict.  (SpecPredict follows a reconstructor over several events.)
SetEventProperties ==
    /\ ~event.assembled
    /\ \E hillas_dict \in HillasDicts, alt \in Altitudes :
      \E masks \in [Range(hillas_dict) -> MaskChoices] :
        LET image_dict == Dict(Range(hillas_dict), ImageOf(0))
            mask_dict == Dict(Range(hillas_dict), masks)
            r == set_event_properties(event, hillas_dict, image_dict, image_dict,
                                      mask_dict, alt, config.template_scale)
        IN  /\ event' = r.event
            /\ prediction' = initialise_templates(prediction, r.type_tel)
            /\ time_prediction' = initialise_time_templates(time_prediction,
                                      prediction, r.type_tel, config.use_time_gradient)
            /\ call' = NoCall
    /\ UNCHANGED <<config, minimise_vars, predict_vars>>

\* What a division by d = 0 leaves in time_fit: NaN, or the 0 under the mask
\* of a masked array
SingularFits == {NaN, Fin(0)}

\* get_likelihood(source_x, source_y, core_x, core_y, energy, x_max_scale,
\* goodness_of_fit) on the assembled event
GetLikelihood ==
    /\ event.assembled
    /\ call.op = "none"
    /\ \E a \in LikelihoodArgs, gof \in BOOLEAN, k \in 1..Len(RawValues),
          singular \in SingularFits :
        call' = get_likelihood(event, config, prediction, time_prediction,
                               a, gof, k, singular)
    /\ UNCHANGED <<self_vars, minimise_vars, predict_vars>>

\* get_shower_max(source_x, source_y, core_x, core_y, zen) on the assembled event
GetShowerMax ==
    /\ event.assembled
    /\ call.op = "none"
    /\ \E a \in LikelihoodArgs, zen \in DOMAIN Cos2 :
        LET r == get_shower_max(event, config.xmax_offset, a.source_x, a.source_y,
                                a.core_x, a.core_y, zen)
        IN call' = [NoCall EXCEPT !.op = "get_shower_max", !.args = a,
                                  !.zen = zen, !.mean_height = r.mean_height,
                                  !.ret = r.x_max]
    /\ UNCHANGED <<self_vars, minimise_vars, predict_vars>>

\* The caller takes the result of the call
Return ==
    /\ call.op # "none"
    /\ call' = NoCall
    /\ UNCHANGED <<self_vars, minimise_vars, predict_vars>>

NextLike == SetEventProperties \/ GetLikelihood \/ GetShowerMax \/ Return

SpecLikelihood == InitLike /\ [][NextLike]_vars

----------------------------------------------------------------------------
(***************************************************************************)
(* SpecMinimise: calls of minimise on a reconstructor left alone otherwise *)
(***************************************************************************)

\* ImPACTReconstructor(subarray): the default constructor arguments, with a
\* template_scale of 1.0 for every telescope
DefaultConfig == [use_time_gradient |-> FALSE, priors |-> {},
                  template_scale |-> [t \in Tels |-> 2], xmax_offset |-> 0]

InitMinimise ==
    /\ MinimiseIdle
    /\ PredictIdle
    /\ config = DefaultConfig
    /\ event = NoEvent
    /\ prediction = EmptyCache
    /\ time_prediction = EmptyCache
    /\ call = NoCall

SpecMinimise == InitMinimise /\ [][NextMinimise]_vars

----------------------------------------------------------------------------
(***************************************************************************)
(* SpecPredict: a reconstructor that predict is called on, event after     *)
(* event.  The fit of minimise appears as its likelihood evaluations and   *)
(* the result of its last migrad.                                          *)
(***************************************************************************)

\* Likelihood evaluations of one fit that the model follows one by one
MaxEvaluations == 2

\* The dicts predict can be given for the telescopes of hillas_dict: None, a
\* dict without the entry of the first telescope, a dict with every entry
InputDicts(hillas_dict, val) ==
    { NoneDict,
      Dict(Range(hillas_dict) \ {hillas_dict[1]}, val),
      Dict(Range(hillas_dict), val) }

FullMasks == [t \in Tels |-> [p \in Pixels |-> TRUE]]

\* The image_dict and mask_dict of one predict call: at most one of them is
\* not complete
PredictInputs(hillas_dict) ==
    { io \in InputDicts(hillas_dict, ImageOf(0)) \X InputDicts(hillas_dict, FullMasks) :
        io[1] = Dict(Range(hillas_dict), ImageOf(0))
        \/ io[2] = Dict(Range(hillas_dict), FullMasks) }

\* The start of an event: what the predictors hold now comes from an earlier
\* event, and no reset() of this predict call has happened yet
NewEvent(cache) ==
    [c \in CameraTypes |->
        [cache[c] EXCEPT !.lookup = IF @ = "event" THEN "old" ELSE @,
                         !.resets = 0]]

\* A predictor is queried for the current event
Query(cache, queried) ==
    [c \in CameraTypes |->
        IF c \in queried THEN [cache[c] EXCEPT !.lookup = "event"] ELSE cache[c]]

\* Some queried predictor still holds an earlier event's state, or was not
\* reset exactly once in this predict call
Unreset(cache, queried) ==
    \E q \in queried : cache[q].lookup = "old" \/ cache[q].resets # 1

\* shower_result.is_valid = True, line 767
ShowerIsValid(migrad_valid) == TRUE

\* energy_result.is_valid = True, line 793
EnergyIsValid(migrad_valid) == TRUE

\* The parameter vectors the minimiser evaluates
FitArgs == [source_x : {0}, source_y : {4}, core_x : {0}, core_y : {0},
            energy : {100}, x_max_scale : {100}]

InitPredict ==
    /\ MinimiseIdle
    /\ PredictIdle
    /\ config \in {c \in Configs : c.priors = {}}
    /\ event = NoEvent
    /\ prediction = EmptyCache
    /\ time_prediction = EmptyCache
    /\ call = NoCall

\* predict(...), lines 701-733: the check of image_dict, set_event_properties
\* and reset_interpolator.  The seed of lines 709-733 only chooses where the
\* fit starts, which FitArgs leaves open.
Predict ==
    /\ predict_pc \in {"idle", "done", "failed"}
    /\ \E hillas_dict \in HillasDicts :
       \E io \in PredictInputs(hillas_dict) :
       \E r \in {set_event_properties(event, hillas_dict, io[1], io[1], io[2],
                                      90, config.template_scale)} :
        LET image_dict == io[1]
            mask_dict == io[2]
            created == initialise_templates(NewEvent(prediction), r.type_tel)
        IN  /\ predict_in' = [hillas_dict |-> hillas_dict, image_dict |-> image_dict,
                              mask_dict |-> mask_dict]
            /\ IF image_dict.none
                  THEN /\ raised' = "EmptyImages"
                       /\ predict_pc' = "failed"
                       /\ prediction' = NewEvent(prediction)
                       /\ time_prediction' = NewEvent(time_prediction)
                       /\ UNCHANGED event
               ELSE IF r.error # ""
                  THEN /\ raised' = r.error
                       /\ predict_pc' = "failed"
                       /\ event' = r.event
                       /\ prediction' = NewEvent(prediction)
                       /\ time_prediction' = NewEvent(time_prediction)
               ELSE /\ raised' = ""
                    /\ predict_pc' = "fit"
                    /\ event' = r.event
                    /\ prediction' = reset_interpolator(created)
                    /\ time_prediction' = initialise_time_templates(
                            NewEvent(time_prediction), prediction, r.type_tel,
                            config.use_time_gradient)
    /\ result' = NoResult
    /\ evaluations' = 0
    /\ call' = NoCall
    /\ UNCHANGED <<config, bad_query, minimise_vars>>

\* An evaluation whose assignments to the prediction's mask reach the mask
\* of self.image
UnmaskedByEvaluation(ev) ==
    [ev EXCEPT !.image = Unmasked(ev.image.data, ev.image.mask)]

\* The event state a get_likelihood call leaves: lines 426-532 assign no
\* attribute of self and work on new arrays (prediction, time_gradients, like)
EventAfterEvaluation(ev) == ev

\* One call of self.get_likelihood by the minimiser (lines 829, 847, 857, 875)
Evaluate ==
    /\ predict_pc = "fit"
    /\ evaluations < MaxEvaluations
    /\ \E a \in FitArgs, k \in {3} :
        LET c == get_likelihood(event, config, prediction, time_prediction,
                                a, FALSE, k, NaN)
        IN  /\ call' = c
            /\ bad_query' = (bad_query \/ Unreset(prediction, c.queried)
                                       \/ Unreset(time_prediction, c.time_queried))
            /\ prediction' = Query(prediction, c.queried)
            /\ time_prediction' = Query(time_prediction, c.time_queried)
            /\ IF c.error # ""
                  THEN /\ raised' = c.error
                       /\ predict_pc' = "failed"
                  ELSE /\ UNCHANGED <<raised, predict_pc>>
    /\ event' = EventAfterEvaluation(event)
    /\ evaluations' = evaluations + 1
    /\ UNCHANGED <<config, predict_in, result, minimise_vars>>

\* minimise returns and predict fills the containers, lines 737-795
Finish ==
    /\ predict_pc = "fit"
    /\ evaluations >= 1
    /\ \E migrad_valid \in BOOLEAN :
        result' = [shower_is_valid |-> ShowerIsValid(migrad_valid),
                   energy_is_valid |-> EnergyIsValid(migrad_valid),
                   migrad_valid |-> migrad_valid]
    /\ predict_pc' = "done"
    /\ evaluations' = 0
    /\ UNCHANGED <<self_vars, call, predict_in, raised, bad_query, minimise_vars>>

NextPredict == Predict \/ Evaluate \/ Finish

SpecPredict == InitPredict /\ [][NextPredict]_vars

----------------------------------------------------------------------------
(***************************************************************************)
(* Claims                                                                  *)
(***************************************************************************)

(* C1: when the pre-scan has run, stage 2 starts from the fitted energy of a  *)
(* candidate whose stage-1 minimisation reached the lowest objective value    *)
(* of all five candidates.                                                    *)

ScanDone == min_pc = "stage2" /\ preminimise /\ Len(scan_results) = Len(SeedEnergies)

LowestFval == CHOOSE f \in {r.fval : r \in Range(scan_results)} :
                 \A r \in Range(scan_results) : f <= r.fval

C1_Stage2StartsFromBest ==
    ScanDone => \E r \in Range(scan_results) :
                    r.fval = LowestFval /\ r.energy = energy

(* C2: the validity flags of the results predict returns follow the           *)
(* convergence flag of the stage-2 migrad.                                    *)
C2_ValidityFollowsConvergence ==
    predict_pc = "done" =>
        /\ result.shower_is_valid = result.migrad_valid
        /\ result.energy_is_valid = result.migrad_valid

(* C3: in every predict call, each cached predictor the event uses, for the   *)
(* amplitudes or for the time gradients, is reset exactly once, before the    *)
(* first likelihood evaluation of the fit, and no evaluation queries a        *)
(* predictor that still holds an earlier event's state.                       *)
C3_ResetOncePerEvent ==
    /\ ~bad_query
    /\ predict_pc \in {"fit", "done"} =>
         \A c \in Range(event.tel_types) :
            /\ prediction[c].cached => prediction[c].resets = 1
            /\ (config.use_time_gradient /\ time_prediction[c].cached) =>
                    time_prediction[c].resets = 1

(* C4: whenever the image data or the mask data is absent, as a whole or for  *)
(* a participating telescope, predict fails with the dedicated error and      *)
(* before it touches the event state.                                         *)
InputAbsent ==
    \/ predict_in.image_dict.none
    \/ predict_in.mask_dict.none
    \/ \E t \in Range(predict_in.hillas_dict) :
          t \notin predict_in.image_dict.keys \/ t \notin predict_in.mask_dict.keys

C4_AbsentInputRejected ==
    (predict_pc # "idle" /\ InputAbsent) =>
        /\ predict_pc = "failed"
        /\ raised = "EmptyImages"
        /\ ~event.image_is_dict

LikelihoodReturned == call.op = "get_likelihood" /\ call.error = ""

(* C5: with goodness_of_fit true, get_likelihood returns the value            *)
(* it returns with goodness_of_fit false for the same event, parameters and   *)
(* prediction, minus the mean-poisson-likelihood baseline, whether time       *)
(* gradients and priors are enabled or not.                                   *)
C5_GoodnessIsObjectiveMinusBaseline ==
    (LikelihoodReturned /\ call.gof) =>
        call.ret = XSub(FinalSum(call.like,
                                 PriorPen(config.priors, call.args.energy, Fin(0)),
                                 config.use_time_gradient, call.chi2_sum),
                        call.baseline)

(* C6: no value of the predicted-amplitude array passed to the pixel          *)
(* likelihood is below the floor 1e-8 or non-finite.                          *)
C6_PredictionFloored ==
    LikelihoodReturned =>
        \A c \in DOMAIN call.passed :
            IsFinite(call.passed[c]) /\ call.passed[c].v >= Floor

(* C7: the Xmax offset passed to the predictors lies in [-100, 150]: an       *)
(* offset computed above 150 is passed as 150, one computed below -100 as     *)
(* -100, and one inside the range unchanged.                                  *)
C7_XmaxOffsetClamped ==
    call.op = "get_likelihood" =>
        /\ IsFinite(call.x_max_bin)
        /\ call.x_max_bin.v >= XmaxBinLow /\ call.x_max_bin.v <= XmaxBinHigh
        /\ XGt(call.unclamped, Fin(XmaxBinHigh)) => call.x_max_bin = Fin(XmaxBinHigh)
        /\ XLt(call.unclamped, Fin(XmaxBinLow)) => call.x_max_bin = Fin(XmaxBinLow)
        /\ (~XGt(call.unclamped, Fin(XmaxBinHigh))
            /\ ~XLt(call.unclamped, Fin(XmaxBinLow))) => call.x_max_bin = call.unclamped

C7_Witness ==
    /\ call.op = "get_likelihood" /\ call.queried # {}
    /\ XLt(call.unclamped, Fin(XmaxBinLow))
    /\ call.x_max_bin = Fin(XmaxBinLow)

(* C8: once set_event_properties has completed, the cache holds a predictor   *)
(* for every camera type of the event, "DUMMY" included, and the lookup of    *)
(* get_likelihood never misses.                                               *)
C8_CacheCoversEventTypes ==
    /\ event.assembled => \A c \in Range(event.tel_types) : prediction[c].cached
    /\ call.op = "get_likelihood" => call.error # "KeyError"

(* C9: the mean height get_shower_max looks up in the depth profile is finite *)
(* and at most 100000 m.                                                      *)
C9_HeightFiniteAndBounded ==
    call.op \in {"get_shower_max", "get_likelihood"} =>
        IsFinite(call.mean_height) /\ call.mean_height.v <= MaxHeight

(* C10: a telescope whose cleaning mask selects no pixel is padded with       *)
(* masked placeholders and adds nothing to the value get_likelihood returns:  *)
(* the value is the one of the pixels of the other telescopes alone.          *)
Selecting(ev) == {i \in 1..Len(ev.tel_types) : \E j \in DOMAIN ev.spe[i] : ev.spe[i][j] # 0}

ValueOfSelecting ==
    LET cells == {c \in LikeCells(event) : c[1] \in Selecting(event)}
        like == XSumOver([c \in cells |->
                    neg_log_likelihood_approx(event.image.data[c[1]][c[2]],
                        call.passed[c], event.spe[c[1]][c[2]], event.ped[c[1]][c[2]])],
                    cells)
        baseline == XSumOver([c \in cells |->
                    mean_poisson_likelihood_gaussian(call.passed[c],
                        event.spe[c[1]][c[2]], event.ped[c[1]][c[2]])], cells)
    IN  IF call.gof THEN XSub(like, baseline)
        ELSE IF config.use_time_gradient
             THEN XAdd(like, XSumOver(call.chi2, Selecting(event)))
             ELSE like

C10_EmptyTelescopeAddsNothing ==
    /\ event.assembled =>
         \A i \in 1..Len(event.tel_types) :
            i \notin Selecting(event) =>
                /\ Len(event.image.data[i]) = Len(event.image.data[1])
                /\ \A j \in DOMAIN event.image.mask[i] : event.image.mask[i][j]
    /\ (LikelihoodReturned /\ Selecting(event) # 1..Len(event.tel_types)) =>
         call.ret = ValueOfSelecting

(* C11: when the pre-scan has run, the energy limits of stage 2 are           *)
(* [0.1 E, 2 E] for the energy E stage 2 starts from, E lies strictly inside  *)
(* them, and they are not the limits the caller supplied.                     *)
C11_Stage2LimitsFollowPrescan ==
    ScanDone =>
        /\ limits[5] = <<energy \div 10, energy * 2>>
        /\ limits[5][1] < energy /\ energy < limits[5][2]

(* C12: a get_shower_max call in which the image centroid of a telescope      *)
(* coincides with the candidate source direction fails with an error; it      *)
(* returns no depth.                                                          *)
ZeroDisplacement ==
    \E i \in 1..Len(event.peak_x) :
        /\ event.peak_x[i] = call.args.source_x
        /\ event.peak_y[i] = call.args.source_y

C12_ZeroDisplacementFails ==
    (call.op = "get_shower_max" /\ ZeroDisplacement) => call.error # ""

(* C13: with goodness_of_fit false and a prior enabled, get_likelihood        *)
(* returns the pixel-likelihood sum plus the penalties of the enabled priors  *)
(* (plus the time-gradient term when time gradients are enabled).             *)
EnabledPenalty ==
    PriorPen(config.priors, call.args.energy,
             XAdd(call.unclamped, Fin(guess_shower_depth(call.args.energy))))

C13_PriorsAreAdded ==
    (LikelihoodReturned /\ ~call.gof /\ config.priors # {}) =>
        call.ret = XAdd(IF config.use_time_gradient
                           THEN XAdd(call.like, call.chi2_sum) ELSE call.like,
                        EnabledPenalty)

(* C14: the tolerance set on the minimizer of stage 2 is strictly smaller     *)
(* than the tolerance set on the minimizer of each stage-1 pre-scan fit.      *)
C14_Stage2TolIsTighter ==
    [][(ScanDone /\ min_pc' = "done") =>
            \A r \in Range(scan_results) : min'.tol < r.tol]_vars

(* C15: the i-th uncertainty minimise returns is the minimizer's error of the *)
(* i-th parameter, for each of the six parameters; the core_y entry is the    *)
(* error of core_y.                                                           *)
C15_ErrorsArePerParameter ==
    min_pc = "done" =>
        \A i \in 1..Len(ParamNames) : fit_return.errors[i] = min.errors[i]

(* C16: after set_event_properties the position-x, position-y, amplitude and  *)
(* time arrays carry the same mask bit at every row and pixel index; every    *)
(* padding slot and every pixel of amplitude zero is masked in all four.      *)
OwnPixels(i) == Cardinality({j \in DOMAIN event.spe[i] : event.spe[i][j] # 0})

MaskedInAll(i, j) ==
    /\ event.pixel_x.mask[i][j] /\ event.pixel_y.mask[i][j]
    /\ event.image.mask[i][j] /\ event.time.mask[i][j]

C16_MasksAgree ==
    event.assembled =>
        \A i \in 1..Len(event.tel_types) : \A j \in DOMAIN event.image.data[i] :
            /\ event.pixel_x.mask[i][j] = event.image.mask[i][j]
            /\ event.pixel_y.mask[i][j] = event.image.mask[i][j]
            /\ event.time.mask[i][j] = event.image.mask[i][j]
            /\ j > OwnPixels(i) => MaskedInAll(i, j)
            /\ event.image.data[i][j] = 0 => MaskedInAll(i, j)

C16_Witness ==
    /\ event.assembled
    /\ \E i \in 1..Len(event.tel_types) : \E j \in DOMAIN event.image.data[i] :
          j > OwnPixels(i) /\ MaskedInAll(i, j)
    /\ \E i \in 1..Len(event.tel_types) : \E j \in DOMAIN event.image.data[i] :
          j <= OwnPixels(i) /\ event.image.data[i][j] = 0 /\ MaskedInAll(i, j)
    /\ \E i \in 1..Len(event.tel_types) : \E j \in DOMAIN event.image.data[i] :
          ~event.image.mask[i][j] /\ ~event.pixel_x.mask[i][j]

(* C17: from the end of set_event_properties to the return of predict, no     *)
(* likelihood evaluation and no step of the fit changes a field of the event  *)
(* state.                                                                     *)
C17_EventStateFrozen ==
    [][predict_pc = "fit" => event' = event]_vars

C17_Witness ==
    /\ predict_pc = "done"
    /\ call.op = "get_likelihood" /\ call.error = ""
    /\ event.assembled
    /\ \E i \in 1..Len(event.tel_types) : \E j \in DOMAIN event.image.mask[i] :
          event.image.mask[i][j]
    /\ \E i \in 1..Len(event.tel_types) : \E j \in DOMAIN event.image.mask[i] :
          ~event.image.mask[i][j]

====
